---- MODULE Spec2Model ----
(***************************************************************************)
(* Model of ampligraph/latent_features/loss_functions.py: the process-wide *)
(* LOSS_REGISTRY filled by the register_loss decorators at module load,    *)
(* the Loss base class (construction, get_state, _inputs_check, apply) and *)
(* the five concrete losses.                                               *)
(*                                                                         *)
(* Numbers.  Scores, margins and alpha are float32 in the code.  The model *)
(* writes them in fixed point, in units of 1/2: 1.0 is 2, 0.5 is 1, 3.0 is *)
(* 6, -2.0 is -4.  Sums, differences and maxima of such small values are   *)
(* exact in float32, so the piecewise-linear losses (pairwise, absolute    *)
(* margin) are computed as integers.  log, exp, sigmoid and softmax are    *)
(* kept symbolic: a loss value is a scalar part plus the list of terms     *)
(* f(x) it sums, each with the softmax weight (alpha, logits, k) it is     *)
(* multiplied by.  eta is a plain integer.                                 *)
(*                                                                         *)
(* Tensors of shape [n, 1] are sequences of length n.  The graph is run    *)
(* with shapes known at run time: an op created under                      *)
(* tf.control_dependencies runs after the assertions it depends on.        *)
(***************************************************************************)
EXTENDS Integers, Sequences, FiniteSets, TLC

\* Largest number of negatives per positive (eta ranges over 1..MaxEta).
MaxEta == 2
\* Largest length of a score tensor in the lifecycle specification.
MaxLen == 2

VARIABLES
    module_pc,      \* number of @register_loss decorators executed so far
    LOSS_REGISTRY,  \* line 4: name -> registered class and its metadata
    instances,      \* the Loss objects: class, _loss_parameters, _dependencies
    call,           \* the most recent operation and its arguments
    ret,            \* what that operation returned or raised
    pinned          \* observer: one earlier apply call and its outcome

vars == <<module_pc, LOSS_REGISTRY, instances, call, ret, pinned>>

----------------------------------------------------------------------------
\* Python dict helpers

EmptyDict == [k \in {} |-> 0]

DictSet(d, k, v) == [x \in (DOMAIN d) \cup {k} |-> IF x = k THEN v ELSE d[x]]

\* dict.get(key, default)
DictGet(d, k, default) == IF k \in DOMAIN d THEN d[k] ELSE default

----------------------------------------------------------------------------
\* The registry (lines 4-17) and the five decorators

\* the default arguments of register_loss (line 9)
DefaultExternalParams == <<>>

DefaultClassParams == ("require_same_size_pos_neg" :> TRUE)

\* the decorators, in the order the module executes them
Decorations ==
    << [name |-> "pairwise", class_handle |-> "PairwiseLoss",
        external_params |-> <<"margin">>, class_params |-> DefaultClassParams],
       [name |-> "nll", class_handle |-> "NLLLoss",
        external_params |-> DefaultExternalParams, class_params |-> DefaultClassParams],
       [name |-> "nll-adversarial", class_handle |-> "NLLOriginalLoss",
        external_params |-> <<"alpha">>,
        class_params |-> ("require_same_size_pos_neg" :> FALSE)],
       [name |-> "absolute_margin", class_handle |-> "AbsoluteMarginLoss",
        external_params |-> <<"margin">>, class_params |-> DefaultClassParams],
       [name |-> "self_adversarial", class_handle |-> "SelfAdversarialLoss",
        external_params |-> <<"margin", "alpha">>,
        class_params |-> ("require_same_size_pos_neg" :> FALSE)] >>

insert_in_registry_by_class(registry, name, external_params, class_params, class_handle) ==
    DictSet(registry, class_handle,
            [class_handle |-> class_handle, name |-> name,
             external_params |-> external_params, class_params |-> class_params])

insert_in_registry_overwrite(registry, name, external_params, class_params, class_handle) ==
    (name :> [class_handle |-> class_handle, name |-> name,
              external_params |-> external_params, class_params |-> class_params])

\* register_loss(name, external_params, class_params)(class_handle)
insert_in_registry(registry, name, external_params, class_params, class_handle) ==
    DictSet(registry, name,
            [class_handle |-> class_handle, name |-> name,
             external_params |-> external_params, class_params |-> class_params])

----------------------------------------------------------------------------
\* Records of the model

\* an object slot before any constructor ran on it
NoInstance ==
    [constructed |-> FALSE, class |-> "", name |-> "",
     loss_parameters |-> EmptyDict, dependencies |-> <<>>]

\* the loss before anything was computed
NoLoss == [scalar |-> 0, terms |-> <<>>, weighted |-> <<>>]

NoRet == [kind |-> "none", error |-> "", class |-> "", none |-> FALSE,
          flag |-> FALSE, loss |-> NoLoss]

Returned(loss) == [NoRet EXCEPT !.kind = "ok", !.loss = loss]

Raised(error) == [NoRet EXCEPT !.kind = "error", !.error = error]

NoCall == [op |-> "none", inst |-> "", name |-> "", eta |-> 0,
           hyperparam_dict |-> EmptyDict, param_name |-> "",
           scores_pos |-> <<>>, scores_neg |-> <<>>]

\* the observer before it pinned a call; intervening: some other call was
\* made since the pinned one
NoPin == [set |-> FALSE, call |-> NoCall, ret |-> NoRet, intervening |-> FALSE]

\* one summand f(x) of a loss, multiplied by softmax(alpha * logits)[k]
\* (k = 0: not weighted)
Term(f, x) == [f |-> f, x |-> x, alpha |-> 0, logits |-> <<>>, k |-> 0]

WeightedTerm(f, x, alpha, logits, k) ==
    [f |-> f, x |-> x, alpha |-> alpha, logits |-> logits, k |-> k]

----------------------------------------------------------------------------
\* Tensor operations

RECURSIVE reduce_sum(_)
reduce_sum(t) == IF t = <<>> THEN 0 ELSE t[1] + reduce_sum(Tail(t))

Maximum(a, b) == IF a >= b THEN a ELSE b

\* NumPy broadcasting of the leading dimension: equal, or one of them is 1
Broadcastable(x, y) == Len(x) = Len(y) \/ Len(x) = 1 \/ Len(y) = 1

BroadcastLen(x, y) == IF Len(x) = 1 THEN Len(y) ELSE Len(x)

BroadcastAt(x, i) == IF Len(x) = 1 THEN x[1] ELSE x[i]

\* x + y element-wise; defined when Broadcastable(x, y)
tf_add(x, y) == [i \in 1..BroadcastLen(x, y) |-> BroadcastAt(x, i) + BroadcastAt(y, i)]

\* x - y element-wise; defined when Broadcastable(x, y)
tf_subtract(x, y) == [i \in 1..BroadcastLen(x, y) |-> BroadcastAt(x, i) - BroadcastAt(y, i)]

tf_reshape_column_major(t, rows, cols) ==
    [r \in 1..rows |-> [c \in 1..cols |-> t[(c - 1) * rows + r]]]

\* tf.reshape(t, [rows, cols]): row-major, defined when Len(t) = rows * cols
tf_reshape(t, rows, cols) ==
    [r \in 1..rows |-> [c \in 1..cols |-> t[(r - 1) * cols + c]]]

\* column c of a matrix given as a sequence of rows: what axis = 0 runs over
Column(m, c) == [r \in 1..Len(m) |-> m[r][c]]

\* tf.Assert(tf.equal(tf.shape(scores_pos)[0], tf.shape(scores_neg)[0]), ...)
\* bound to the tensors of the call that created it
tf_Assert_equal_shape(scores_pos, scores_neg) ==
    [op |-> "Assert", lhs |-> Len(scores_pos), rhs |-> Len(scores_neg)]

AssertHolds(a) == a.lhs = a.rhs

\* with tf.control_dependencies(dependencies): every op of the block runs
\* after the assertions, so a failed assertion is what the run reports
control_dependencies(dependencies, result) ==
    IF \E k \in 1..Len(dependencies) : ~AssertHolds(dependencies[k])
    THEN Raised("InvalidArgumentError: assertion failed")
    ELSE result

----------------------------------------------------------------------------
\* _init_hyperparams of the five classes: loss_parameters after the call

PairwiseLoss_init_hyperparams(loss_parameters, hyperparam_dict) ==
    DictSet(loss_parameters, "margin", DictGet(hyperparam_dict, "margin", 2))

NLLLoss_init_hyperparams(loss_parameters, hyperparam_dict) ==
    loss_parameters

NLLOriginalLoss_init_hyperparams(loss_parameters, hyperparam_dict) ==
    DictSet(loss_parameters, "alpha", DictGet(hyperparam_dict, "alpha", 1))

AbsoluteMarginLoss_init_hyperparams(loss_parameters, hyperparam_dict) ==
    DictSet(loss_parameters, "margin", DictGet(hyperparam_dict, "margin", 2))

SelfAdversarialLoss_init_hyperparams_margin1(loss_parameters, hyperparam_dict) ==
    DictSet(DictSet(loss_parameters, "margin", DictGet(hyperparam_dict, "margin", 2)),
            "alpha", DictGet(hyperparam_dict, "alpha", 1))

SelfAdversarialLoss_init_hyperparams(loss_parameters, hyperparam_dict) ==
    DictSet(DictSet(loss_parameters, "margin", DictGet(hyperparam_dict, "margin", 6)),
            "alpha", DictGet(hyperparam_dict, "alpha", 1))

\* self._init_hyperparams(hyperparam_dict), dispatched on the class
init_hyperparams(class, loss_parameters, hyperparam_dict) ==
    CASE class = "PairwiseLoss" ->
            PairwiseLoss_init_hyperparams(loss_parameters, hyperparam_dict)
      [] class = "NLLLoss" ->
            NLLLoss_init_hyperparams(loss_parameters, hyperparam_dict)
      [] class = "NLLOriginalLoss" ->
            NLLOriginalLoss_init_hyperparams(loss_parameters, hyperparam_dict)
      [] class = "AbsoluteMarginLoss" ->
            AbsoluteMarginLoss_init_hyperparams(loss_parameters, hyperparam_dict)
      [] class = "SelfAdversarialLoss" ->
            SelfAdversarialLoss_init_hyperparams(loss_parameters, hyperparam_dict)

\* Loss.__init__(eta, hyperparam_dict) on the class registered as entry.
\* No _init_hyperparams indexes hyperparam_dict, so the KeyError handler of
\* lines 54-57 is never entered.
Loss_init(entry, eta, hyperparam_dict) ==
    [constructed |-> TRUE, class |-> entry.class_handle, name |-> entry.name,
     loss_parameters |->
        init_hyperparams(entry.class_handle, ("eta" :> eta), hyperparam_dict),
     dependencies |-> <<>>]

\* Loss.get_state(param_name): dict.get gives None for an absent key
Loss_get_state(self, param_name) ==
    LET class_params == LOSS_REGISTRY[self.name].class_params
    IN  IF param_name \in DOMAIN class_params
        THEN [NoRet EXCEPT !.kind = "ok", !.flag = class_params[param_name]]
        ELSE [NoRet EXCEPT !.kind = "ok", !.none = TRUE]

----------------------------------------------------------------------------
\* _inputs_check and the five _apply

\* the condition of line 103
NeedsSameSize(self) ==
    /\ LOSS_REGISTRY[self.name].class_params["require_same_size_pos_neg"]
    /\ self.loss_parameters["eta"] # 1

Loss_inputs_check_keep(self, scores_pos, scores_neg) ==
    IF NeedsSameSize(self)
    THEN Append(self.dependencies, tf_Assert_equal_shape(scores_pos, scores_neg))
    ELSE self.dependencies

Loss_inputs_check_no_assert(self, scores_pos, scores_neg) ==
    <<>>

Loss_inputs_check_any_eta(self, scores_pos, scores_neg) ==
    IF LOSS_REGISTRY[self.name].class_params["require_same_size_pos_neg"]
    THEN <<tf_Assert_equal_shape(scores_pos, scores_neg)>>
    ELSE <<>>

\* Loss._inputs_check: self._dependencies after the call
Loss_inputs_check(self, scores_pos, scores_neg) ==
    IF NeedsSameSize(self)
    THEN Append(<<>>, tf_Assert_equal_shape(scores_pos, scores_neg))
    ELSE <<>>

PairwiseLoss_apply_no_max(self, scores_pos, scores_neg) ==
    LET margin == <<self.loss_parameters["margin"]>>
        lhs    == tf_subtract(margin, scores_pos)
    IN  IF ~Broadcastable(lhs, scores_neg)
        THEN Raised("InvalidArgumentError: Incompatible shapes")
        ELSE Returned([NoLoss EXCEPT !.scalar = reduce_sum(tf_add(lhs, scores_neg))])

\* PairwiseLoss._apply
PairwiseLoss_apply(self, scores_pos, scores_neg) ==
    LET margin == <<self.loss_parameters["margin"]>>
        lhs    == tf_subtract(margin, scores_pos)
    IN  IF ~Broadcastable(lhs, scores_neg)
        THEN Raised("InvalidArgumentError: Incompatible shapes")
        ELSE LET x == tf_add(lhs, scores_neg)
             IN  Returned([NoLoss EXCEPT !.scalar =
                    reduce_sum([i \in 1..Len(x) |-> Maximum(x[i], 0)])])

\* NLLLoss._apply: tf.concat takes any two lengths
NLLLoss_apply(self, scores_pos, scores_neg) ==
    LET scores == [i \in 1..Len(scores_pos) |-> -scores_pos[i]] \o scores_neg
    IN  Returned([NoLoss EXCEPT !.terms =
            [i \in 1..Len(scores) |-> Term("log(1+exp)", scores[i])]])

\* NLLOriginalLoss._apply
NLLOriginalLoss_apply(self, scores_pos, scores_neg) ==
    LET alpha == self.loss_parameters["alpha"]
        eta   == self.loss_parameters["eta"]
        n     == Len(scores_pos)
    IN  IF Len(scores_neg) # eta * n
        THEN Raised("InvalidArgumentError: reshape")
        ELSE LET scores_neg_reshaped == tf_reshape(scores_neg, eta, n)
             IN  Returned([NoLoss EXCEPT
                    !.terms = [i \in 1..n |-> Term("-log(sigmoid)", scores_pos[i])],
                    !.weighted = [r \in 1..eta |-> [c \in 1..n |->
                        WeightedTerm("-log(sigmoid)", -scores_neg_reshaped[r][c],
                                     alpha, Column(scores_neg_reshaped, c), r)]]])

AbsoluteMarginLoss_apply_as_pairwise(self, scores_pos, scores_neg) ==
    LET margin == <<self.loss_parameters["margin"]>>
        lhs    == tf_add(margin, scores_neg)
    IN  IF ~Broadcastable(lhs, scores_pos)
        THEN Raised("InvalidArgumentError: Incompatible shapes")
        ELSE LET x == tf_subtract(lhs, scores_pos)
             IN  Returned([NoLoss EXCEPT !.scalar =
                    reduce_sum([i \in 1..Len(x) |-> Maximum(x[i], 0)])])

\* AbsoluteMarginLoss._apply
AbsoluteMarginLoss_apply(self, scores_pos, scores_neg) ==
    LET margin == <<self.loss_parameters["margin"]>>
        x      == tf_add(margin, scores_neg)
        lhs    == [i \in 1..Len(x) |-> Maximum(x[i], 0)]
    IN  IF ~Broadcastable(lhs, scores_pos)
        THEN Raised("InvalidArgumentError: Incompatible shapes")
        ELSE Returned([NoLoss EXCEPT !.scalar =
                reduce_sum(tf_subtract(lhs, scores_pos))])

\* SelfAdversarialLoss._apply
SelfAdversarialLoss_apply(self, scores_pos, scores_neg) ==
    LET margin == self.loss_parameters["margin"]
        alpha  == self.loss_parameters["alpha"]
        eta    == self.loss_parameters["eta"]
        n      == Len(scores_pos)
    IN  IF Len(scores_neg) # eta * n
        THEN Raised("InvalidArgumentError: reshape")
        ELSE LET scores_neg_reshaped == tf_reshape(scores_neg, eta, n)
             IN  Returned([NoLoss EXCEPT
                    !.terms = [i \in 1..n |->
                        Term("-log(sigmoid)", margin - (-scores_pos[i]))],
                    !.weighted = [r \in 1..eta |-> [c \in 1..n |->
                        WeightedTerm("-log(sigmoid)", (-scores_neg_reshaped[r][c]) - margin,
                                     alpha, Column(scores_neg_reshaped, c), r)]]])

\* self._apply(scores_pos, scores_neg), dispatched on the class
apply_formula(self, scores_pos, scores_neg) ==
    CASE self.class = "PairwiseLoss" -> PairwiseLoss_apply(self, scores_pos, scores_neg)
      [] self.class = "NLLLoss" -> NLLLoss_apply(self, scores_pos, scores_neg)
      [] self.class = "NLLOriginalLoss" ->
            NLLOriginalLoss_apply(self, scores_pos, scores_neg)
      [] self.class = "AbsoluteMarginLoss" ->
            AbsoluteMarginLoss_apply(self, scores_pos, scores_neg)
      [] self.class = "SelfAdversarialLoss" ->
            SelfAdversarialLoss_apply(self, scores_pos, scores_neg)

\* Loss.apply: the object after the call and what the call gives
Loss_apply(self, scores_pos, scores_neg) ==
    LET checked == [self EXCEPT !.dependencies =
                        Loss_inputs_check(self, scores_pos, scores_neg)]
    IN  [self |-> checked,
         ret  |-> control_dependencies(checked.dependencies,
                                       apply_formula(checked, scores_pos, scores_neg))]

----------------------------------------------------------------------------
\* The caller's side of the registry

\* lookup(name) of the registry contract: the class registered under name,
\* or ConfigurationError
lookup(registry, name) ==
    IF name \in DOMAIN registry
    THEN [NoRet EXCEPT !.kind = "ok", !.class = registry[name].class_handle]
    ELSE Raised("ConfigurationError")

\* the registry once the first k decorators ran
RECURSIVE RegistryAfter(_)
RegistryAfter(k) ==
    IF k = 0 THEN EmptyDict
    ELSE LET d == Decorations[k]
         IN  insert_in_registry(RegistryAfter(k - 1), d.name, d.external_params,
                                d.class_params, d.class_handle)

----------------------------------------------------------------------------
\* Inputs

Objects == {"a", "b"}

Etas == 1..MaxEta

\* a name nobody registered, beside the registered ones
LookupNames == {Decorations[k].name : k \in 1..Len(Decorations)} \cup {"hinge"}

\* configuration dicts: any subset of the keys, "unknown" being a key no loss reads
HyperKeys == {"margin", "alpha", "unknown"}

\* the values a caller gives: none of them is a default
FullHyperDict == ("margin" :> 4 @@ "alpha" :> 5 @@ "unknown" :> 7)

HyperDicts == {[k \in K |-> FullHyperDict[k]] : K \in SUBSET HyperKeys}

ParamNames == {"require_same_size_pos_neg", "unknown"}

Tensors(values, maxlen) == UNION {[1..n -> values] : n \in 0..maxlen}

ScoreValues == {0, 2}

----------------------------------------------------------------------------
\* Actions

Loaded == module_pc = Len(Decorations)

\* module load: the next @register_loss decorator runs
LoadModule ==
    /\ module_pc < Len(Decorations)
    /\ LET d == Decorations[module_pc + 1]
       IN  /\ LOSS_REGISTRY' = insert_in_registry(LOSS_REGISTRY, d.name,
                                    d.external_params, d.class_params, d.class_handle)
           /\ call' = [NoCall EXCEPT !.op = "register_loss", !.name = d.name]
    /\ module_pc' = module_pc + 1
    /\ ret' = NoRet
    /\ UNCHANGED <<instances, pinned>>

Lookup(name) ==
    /\ Loaded
    /\ call' = [NoCall EXCEPT !.op = "lookup", !.name = name]
    /\ ret' = lookup(LOSS_REGISTRY, name)
    /\ UNCHANGED <<module_pc, LOSS_REGISTRY, instances, pinned>>

\* i = LOSS_REGISTRY[name](eta, hyperparam_dict)
Construct(i, name, eta, hyperparam_dict) ==
    /\ Loaded
    /\ name \in DOMAIN LOSS_REGISTRY
    /\ instances' = [instances EXCEPT ![i] =
                        Loss_init(LOSS_REGISTRY[name], eta, hyperparam_dict)]
    /\ call' = [NoCall EXCEPT !.op = "construct", !.inst = i, !.name = name,
                              !.eta = eta, !.hyperparam_dict = hyperparam_dict]
    /\ ret' = [NoRet EXCEPT !.kind = "ok"]
    /\ UNCHANGED <<module_pc, LOSS_REGISTRY, pinned>>

\* i.get_state(param_name)
GetState(i, param_name) ==
    /\ instances[i].constructed
    /\ call' = [NoCall EXCEPT !.op = "get_state", !.inst = i, !.param_name = param_name]
    /\ ret' = Loss_get_state(instances[i], param_name)
    /\ UNCHANGED <<module_pc, LOSS_REGISTRY, instances, pinned>>

\* i.apply(scores_pos, scores_neg), the graph it builds being run
ApplyCall(i, scores_pos, scores_neg) ==
    /\ instances[i].constructed
    /\ LET r == Loss_apply(instances[i], scores_pos, scores_neg)
       IN  /\ instances' = [instances EXCEPT ![i] = r.self]
           /\ ret' = r.ret
    /\ call' = [NoCall EXCEPT !.op = "apply", !.inst = i,
                              !.scores_pos = scores_pos, !.scores_neg = scores_neg]
    /\ UNCHANGED <<module_pc, LOSS_REGISTRY>>

Apply(i, scores_pos, scores_neg) ==
    /\ ApplyCall(i, scores_pos, scores_neg)
    /\ UNCHANGED pinned

----------------------------------------------------------------------------
\* The lifecycle: module load, then lookups, constructions, get_state and
\* apply calls in any order on one object

Init ==
    /\ module_pc = 0
    /\ LOSS_REGISTRY = EmptyDict
    /\ instances = [i \in Objects |-> NoInstance]
    /\ call = NoCall
    /\ ret = NoRet
    /\ pinned = NoPin

Next ==
    \/ LoadModule
    \/ \E name \in LookupNames : Lookup(name)
    \/ \E name \in LookupNames, eta \in Etas, hyperparam_dict \in HyperDicts :
            Construct("a", name, eta, hyperparam_dict)
    \/ \E param_name \in ParamNames : GetState("a", param_name)
    \/ \E scores_pos \in Tensors(ScoreValues, MaxLen),
          scores_neg \in Tensors(ScoreValues, MaxLen) :
            Apply("a", scores_pos, scores_neg)

Spec == Init /\ [][Next]_vars

----------------------------------------------------------------------------
\* The formulas: a constructed object is given one pair of score tensors,
\* drawn in Init, and apply runs on it

\* scores of the margin losses: 0.0, 2.0, 3.0 and -2.0, 0.0, 0.5
PosValues == {0, 4, 6}

NegValues == {-4, 0, 1}

MarginNames == {"pairwise", "absolute_margin"}

AdversarialNames == {"nll-adversarial", "self_adversarial"}

\* dicts of recognised keys only
FormulaDicts == {d \in HyperDicts : "unknown" \notin DOMAIN d}

Scores(i, scores_pos, scores_neg) ==
    [NoCall EXCEPT !.op = "scores", !.inst = i,
                   !.scores_pos = scores_pos, !.scores_neg = scores_neg]

InitFormula ==
    /\ module_pc = Len(Decorations)
    /\ LOSS_REGISTRY = RegistryAfter(Len(Decorations))
    /\ \E name \in MarginNames \cup AdversarialNames, eta \in Etas,
          hyperparam_dict \in FormulaDicts :
            instances = [i \in Objects |->
                IF i = "a" THEN Loss_init(LOSS_REGISTRY[name], eta, hyperparam_dict)
                ELSE NoInstance]
    /\ \/ /\ instances["a"].name \in MarginNames
          /\ \E scores_pos \in Tensors(PosValues, MaxLen),
                scores_neg \in Tensors(NegValues, MaxLen) :
                  call = Scores("a", scores_pos, scores_neg)
       \/ /\ instances["a"].name \in AdversarialNames
          /\ \E scores_pos \in Tensors({2}, MaxLen),
                scores_neg \in Tensors(ScoreValues, MaxEta * MaxLen) :
                  call = Scores("a", scores_pos, scores_neg)
    /\ ret = NoRet
    /\ pinned = NoPin

ApplyScores ==
    /\ call.op = "scores"
    /\ Apply(call.inst, call.scores_pos, call.scores_neg)

NextFormula == ApplyScores

SpecFormula == InitFormula /\ [][NextFormula]_vars

----------------------------------------------------------------------------
\* Two objects of one class and one eta, and an observer that pins one apply call, to
\* compare every later call of the same object on the same inputs with it

ApplyObserved(i, scores_pos, scores_neg) ==
    /\ ApplyCall(i, scores_pos, scores_neg)
    /\ pinned' \in
         IF pinned.set
         THEN {[pinned EXCEPT !.intervening = @ \/ call' # pinned.call]}
         ELSE {pinned, [set |-> TRUE, call |-> call', ret |-> ret',
                        intervening |-> FALSE]}

InitObserved ==
    /\ module_pc = Len(Decorations)
    /\ LOSS_REGISTRY = RegistryAfter(Len(Decorations))
    /\ \E name \in DOMAIN LOSS_REGISTRY, eta \in Etas :
            instances = [i \in Objects |->
                Loss_init(LOSS_REGISTRY[name], eta, EmptyDict)]
    /\ call = NoCall
    /\ ret = NoRet
    /\ pinned = NoPin

NextObserved ==
    \E i \in Objects, scores_pos \in Tensors({0}, MaxLen),
       scores_neg \in Tensors({0}, MaxLen) :
            ApplyObserved(i, scores_pos, scores_neg)

SpecObserved == InitObserved /\ [][NextObserved]_vars

----------------------------------------------------------------------------
\* Properties

\* the object the most recent call was made on
Self == instances[call.inst]

SameSizeNames == {"pairwise", "nll", "absolute_margin"}

AssertionFailed == "InvalidArgumentError: assertion failed"

IncompatibleShapes == "InvalidArgumentError: Incompatible shapes"

MismatchedApply ==
    /\ call.op = "apply"
    /\ Self.name \in SameSizeNames
    /\ Len(call.scores_pos) # Len(call.scores_neg)

\* C1: a pairwise, nll or absolute_margin loss constructed with eta # 1 and
\* applied to score tensors of different lengths fails with a shape-mismatch
\* error and gives no loss; for nll, whose formula takes any two lengths, the
\* error is the failed size assertion.
C1_MismatchFails ==
    (MismatchedApply /\ Self.loss_parameters["eta"] # 1) =>
        /\ ret.kind = "error"
        /\ ret.error \in {AssertionFailed, IncompatibleShapes}
        /\ ret.loss = NoLoss
        /\ Self.name = "nll" => ret.error = AssertionFailed

C1_Witness ==
    /\ MismatchedApply
    /\ Self.name = "nll"
    /\ Self.loss_parameters["eta"] = 2
    /\ Len(call.scores_pos) = 1
    /\ Len(call.scores_neg) = 2
    /\ ret.error = AssertionFailed

\* C2 as stated: a pairwise, nll or absolute_margin loss constructed with
\* eta = 1 returns a loss for any two score tensors of different lengths.
C2_Original ==
    (MismatchedApply /\ Self.loss_parameters["eta"] = 1) => ret.kind = "ok"

\* C2 amended: with eta = 1 no size assertion is generated, and a call with
\* different lengths never fails on one; nll returns a loss for any two
\* lengths; pairwise and absolute_margin return a loss exactly when one of
\* the two lengths is 1 (the shapes broadcast) and fail with incompatible
\* shapes otherwise.
C2_Amended ==
    (MismatchedApply /\ Self.loss_parameters["eta"] = 1) =>
        /\ Self.dependencies = <<>>
        /\ Self.name = "nll" => ret.kind = "ok"
        /\ Self.name # "nll" =>
              IF Len(call.scores_pos) = 1 \/ Len(call.scores_neg) = 1
              THEN ret.kind = "ok"
              ELSE ret.kind = "error" /\ ret.error = IncompatibleShapes

C2_Witness ==
    /\ MismatchedApply
    /\ Self.loss_parameters["eta"] = 1
    /\ Self.name = "pairwise"
    /\ Len(call.scores_pos) = 1
    /\ Len(call.scores_neg) = 2
    /\ ret.kind = "ok"

RegisteredNames ==
    {"pairwise", "nll", "nll-adversarial", "absolute_margin", "self_adversarial"}

ConcreteClasses ==
    {"PairwiseLoss", "NLLLoss", "NLLOriginalLoss", "AbsoluteMarginLoss",
     "SelfAdversarialLoss"}

DocumentedDefault(name, key) ==
    CASE name = "pairwise" /\ key = "margin" -> 2
      [] name = "absolute_margin" /\ key = "margin" -> 2
      [] name = "nll-adversarial" /\ key = "alpha" -> 1
      [] name = "self_adversarial" /\ key = "margin" -> 6
      [] name = "self_adversarial" /\ key = "alpha" -> 1

DocumentedParams(name) ==
    CASE name \in {"pairwise", "absolute_margin"} -> {"margin"}
      [] name = "nll" -> {}
      [] name = "nll-adversarial" -> {"alpha"}
      [] name = "self_adversarial" -> {"margin", "alpha"}

\* C4: after a construction with (eta, hyperparam_dict), loss_parameters
\* holds eta, and for each external parameter of the loss the value given in
\* hyperparam_dict, or the documented default when the key is absent; it
\* holds no other key.
C4_Hyperparams ==
    call.op = "construct" =>
        /\ Self.constructed
        /\ Self.name = call.name
        /\ DOMAIN Self.loss_parameters = {"eta"} \cup DocumentedParams(call.name)
        /\ Self.loss_parameters["eta"] = call.eta
        /\ {LOSS_REGISTRY[call.name].external_params[k] :
                k \in 1..Len(LOSS_REGISTRY[call.name].external_params)}
              = DocumentedParams(call.name)
        /\ \A key \in DocumentedParams(call.name) :
              Self.loss_parameters[key] =
                  IF key \in DOMAIN call.hyperparam_dict
                  THEN call.hyperparam_dict[key]
                  ELSE DocumentedDefault(call.name, key)

C4_Witness ==
    /\ call.op = "construct"
    /\ call.name = "self_adversarial"
    /\ DOMAIN call.hyperparam_dict = {"alpha", "unknown"}
    /\ Self.loss_parameters["margin"] = 6
    /\ Self.loss_parameters["alpha"] = call.hyperparam_dict["alpha"]

RegistryEntry(name, class_handle, external_params, same_size) ==
    [class_handle |-> class_handle, name |-> name,
     external_params |-> external_params,
     class_params |-> [require_same_size_pos_neg |-> same_size]]

\* C5: once the module is loaded the registry holds one entry for each of
\* the five names, with that loss's external_params and class_params, in
\* every state reached by constructions, get_state calls and apply calls.
C5_Registry ==
    Loaded =>
        /\ DOMAIN LOSS_REGISTRY = RegisteredNames
        /\ LOSS_REGISTRY["pairwise"] =
              RegistryEntry("pairwise", "PairwiseLoss", <<"margin">>, TRUE)
        /\ LOSS_REGISTRY["nll"] = RegistryEntry("nll", "NLLLoss", <<>>, TRUE)
        /\ LOSS_REGISTRY["nll-adversarial"] =
              RegistryEntry("nll-adversarial", "NLLOriginalLoss", <<"alpha">>, FALSE)
        /\ LOSS_REGISTRY["absolute_margin"] =
              RegistryEntry("absolute_margin", "AbsoluteMarginLoss", <<"margin">>, TRUE)
        /\ LOSS_REGISTRY["self_adversarial"] =
              RegistryEntry("self_adversarial", "SelfAdversarialLoss",
                            <<"margin", "alpha">>, FALSE)

C5_Witness ==
    /\ Loaded
    /\ call.op = "get_state"
    /\ call.param_name = "require_same_size_pos_neg"
    /\ Self.name = "nll-adversarial"
    /\ ret.flag = FALSE
    /\ Cardinality(DOMAIN LOSS_REGISTRY) = 5


\* C6: a later apply call on the same object with the same inputs as the
\* pinned call has the same outcome (the same loss, or the same failure),
\* whatever calls were made on either object in between.
C6_Deterministic ==
    (pinned.set /\ call = pinned.call) => ret = pinned.ret

C6_Witness ==
    /\ pinned.set
    /\ pinned.intervening
    /\ call = pinned.call
    /\ ret = pinned.ret
    /\ ret.kind = "ok"
    /\ Self.name = "nll"
    /\ Self.loss_parameters["eta"] = 2
    /\ \A i \in Objects : instances[i].dependencies # <<>>

\* sum over the positions k..Len(scores_pos) of max(0, m - pos + neg)
RECURSIVE PairwiseSum(_, _, _, _)
PairwiseSum(m, scores_pos, scores_neg, k) ==
    IF k > Len(scores_pos) THEN 0
    ELSE (IF m - scores_pos[k] + scores_neg[k] > 0
          THEN m - scores_pos[k] + scores_neg[k] ELSE 0)
         + PairwiseSum(m, scores_pos, scores_neg, k + 1)

\* C7: pairwise on tensors of equal length returns the sum over the positions
\* of max(0, margin - pos + neg), which is never negative; with margin 1.0,
\* [2.0] and [0.5] give 0 and [0.0] and [0.0] give 1.0.
C7_Pairwise ==
    (/\ call.op = "apply"
     /\ Self.name = "pairwise"
     /\ Len(call.scores_pos) = Len(call.scores_neg)) =>
        LET m == Self.loss_parameters["margin"]
        IN  /\ ret.kind = "ok"
            /\ ret.loss.scalar = PairwiseSum(m, call.scores_pos, call.scores_neg, 1)
            /\ ret.loss.scalar >= 0
            /\ ret.loss.terms = <<>> /\ ret.loss.weighted = <<>>
            /\ (m = 2 /\ call.scores_pos = <<4>> /\ call.scores_neg = <<1>>) =>
                    ret.loss.scalar = 0
            /\ (m = 2 /\ call.scores_pos = <<0>> /\ call.scores_neg = <<0>>) =>
                    ret.loss.scalar = 2

C7_Witness ==
    /\ call.op = "apply"
    /\ Self.name = "pairwise"
    /\ Self.loss_parameters["margin"] = 2
    /\ call.scores_pos = <<0>>
    /\ call.scores_neg = <<0>>
    /\ ret.loss.scalar = 2

\* sum over the positions k..Len(scores_pos) of max(0, m + neg) - pos
RECURSIVE AbsoluteMarginSum(_, _, _, _)
AbsoluteMarginSum(m, scores_pos, scores_neg, k) ==
    IF k > Len(scores_pos) THEN 0
    ELSE (IF m + scores_neg[k] > 0 THEN m + scores_neg[k] ELSE 0) - scores_pos[k]
         + AbsoluteMarginSum(m, scores_pos, scores_neg, k + 1)

ExpectedDependencies(self, scores_pos, scores_neg) ==
    IF self.name \in SameSizeNames /\ self.loss_parameters["eta"] # 1
    THEN <<[op |-> "Assert", lhs |-> Len(scores_pos), rhs |-> Len(scores_neg)]>>
    ELSE <<>>

\* C9: after an apply call the object's dependencies are exactly the
\* assertions of that call (one size assertion when the loss requires equal
\* sizes and eta # 1, none otherwise), and the call changes nothing else of
\* the object and nothing of any other object.
C9_Frame ==
    /\ [](call.op = "apply" =>
            Self.dependencies =
                ExpectedDependencies(Self, call.scores_pos, call.scores_neg))
    /\ [][call'.op = "apply" =>
            \A i \in Objects :
                /\ instances'[i].loss_parameters = instances[i].loss_parameters
                /\ instances'[i].class = instances[i].class
                /\ instances'[i].name = instances[i].name
                /\ instances'[i].constructed = instances[i].constructed
                /\ i # call'.inst =>
                       instances'[i].dependencies = instances[i].dependencies]_vars

C9_Witness ==
    /\ call.op = "apply"
    /\ Self.name = "pairwise"
    /\ Self.loss_parameters["eta"] = 2
    /\ Self.loss_parameters["margin"] = 4
    /\ Len(Self.dependencies) = 1
    /\ ret.kind = "error"

====
